---- MODULE Spec2Model ----
(***************************************************************************)
(* Layered Agent OS configuration loading (evosuite/agent_os/config.py).   *)
(*                                                                         *)
(* Python strings are modelled as sequences of one-character strings, so   *)
(* that prefix tests, lower-casing, splitting, digit tests and JSON        *)
(* parsing/encoding are computed character by character.  A structured     *)
(* value is a tagged record [t, v]: "int", "bool", "null", "str" (v a      *)
(* character sequence), "list" (v a sequence of values) or "map" (v a      *)
(* function from key strings to values).  Values are trees, as produced by *)
(* json.loads: no two containers share a child.                            *)
(***************************************************************************)
EXTENDS Integers, Sequences, FiniteSets, TLC

VARIABLES
    pc,         \* position of the running call
    exc,        \* "none", or the name of the exception that left the call
    yamlAvail,  \* whether the optional yaml module was imported
    fs,         \* filesystem snapshot: layer -> candidate index -> file
    environ,    \* os.environ in enumeration order: sequence of <<name, value>>
    cfg,        \* layer -> value returned by its loader (NotLoaded before)
    merged,     \* the accumulator of load_agent_os_config
    envIdx,     \* number of environment entries _env_overrides has consumed
    overrides,  \* the accumulator of _env_overrides
    mbase,      \* _deep_merge: base as passed in
    mincoming,  \* _deep_merge: incoming
    mout        \* _deep_merge: base after the call (NotLoaded before)

vars == <<pc, exc, yamlAvail, fs, environ, cfg, merged, envIdx, overrides,
          mbase, mincoming, mout>>

---------------------------------------------------------------------------
(* Characters and strings *)

Digits == <<"0", "1", "2", "3", "4", "5", "6", "7", "8", "9">>

UpperChars == <<"A", "B", "C", "D", "E", "F", "G", "H", "I", "J", "K", "L", "M",
                "N", "O", "P", "Q", "R", "S", "T", "U", "V", "W", "X", "Y", "Z">>

LowerChars == <<"a", "b", "c", "d", "e", "f", "g", "h", "i", "j", "k", "l", "m",
                "n", "o", "p", "q", "r", "s", "t", "u", "v", "w", "x", "y", "z">>

\* U+00B2 SUPERSCRIPT TWO: str.isdigit() is true of it, int() rejects it.
Sup2 == "SUP2"

\* The characters in use, in code point order (the order str comparison uses).
CodeOrder ==
    <<"\"", ",", "-", ".", "/">> \o Digits \o <<":">> \o UpperChars
        \o <<"[", "\\", "]", "_">> \o LowerChars \o <<"{", "}", Sup2>>

Range(s) == {s[i] : i \in DOMAIN s}

IndexOf(seq, c) == CHOOSE i \in DOMAIN seq : seq[i] = c

CharCode(c) == IndexOf(CodeOrder, c)

IsDigitChar(c) == c \in Range(Digits) \/ c = Sup2

IsDecimalChar(c) == c \in Range(Digits)

DigitValue(c) == IndexOf(Digits, c) - 1

\* str.lower(), one character
LowerChar(c) == IF c \in Range(UpperChars) THEN LowerChars[IndexOf(UpperChars, c)] ELSE c

\* str.lower()
Lower(s) == [i \in DOMAIN s |-> LowerChar(s[i])]

\* str.startswith(prefix)
StartsWith(s, prefix) ==
    /\ Len(s) >= Len(prefix)
    /\ SubSeq(s, 1, Len(prefix)) = prefix

\* s[n:]
DropPrefix(s, n) == SubSeq(s, n + 1, Len(s))

\* str.split("__"): leftmost, non-overlapping occurrences of the delimiter
RECURSIVE SplitFrom(_, _, _)
SplitFrom(s, i, cur) ==
    IF i > Len(s) THEN <<cur>>
    ELSE IF i < Len(s) /\ s[i] = "_" /\ s[i + 1] = "_"
         THEN <<cur>> \o SplitFrom(s, i + 2, <<>>)
         ELSE SplitFrom(s, i + 1, Append(cur, s[i]))

Split(s) == SplitFrom(s, 1, <<>>)

\* str.isdigit(): non-empty and every character a digit
IsDigit(s) == Len(s) > 0 /\ \A i \in DOMAIN s : IsDigitChar(s[i])

\* value of a string of decimal digits (leading zeros allowed)
RECURSIVE DecimalValue(_)
DecimalValue(s) ==
    IF Len(s) = 0 THEN 0
    ELSE 10 * DecimalValue(SubSeq(s, 1, Len(s) - 1)) + DigitValue(s[Len(s)])

\* str(n) for an integer
RECURSIVE NatToStr(_)
NatToStr(n) == IF n < 10 THEN <<Digits[n + 1]>> ELSE NatToStr(n \div 10) \o <<Digits[(n % 10) + 1]>>

IntToStr(n) == IF n < 0 THEN <<"-">> \o NatToStr(0 - n) ELSE NatToStr(n)

\* a < b in Python's str ordering
RECURSIVE StrLess(_, _)
StrLess(a, b) ==
    IF Len(b) = 0 THEN FALSE
    ELSE IF Len(a) = 0 THEN TRUE
    ELSE IF a[1] # b[1] THEN CharCode(a[1]) < CharCode(b[1])
    ELSE StrLess(Tail(a), Tail(b))

---------------------------------------------------------------------------
(* Structured values *)

VInt(n) == [t |-> "int", v |-> n]
VBool(b) == [t |-> "bool", v |-> b]
VNull == [t |-> "null", v |-> 0]
VStr(s) == [t |-> "str", v |-> s]
VList(s) == [t |-> "list", v |-> s]
VMap(f) == [t |-> "map", v |-> f]

EmptyDict == <<>>
EmptyMap == VMap(EmptyDict)

\* the value of a variable that holds nothing yet
NotLoaded == [t |-> "unset", v |-> 0]

\* one-entry dict, and dict update d[k] = x
Dict1(k, x) == [j \in {k} |-> x]
Put(d, k, x) == [j \in DOMAIN d \cup {k} |-> IF j = k THEN x ELSE d[j]]

\* bool(x)
Truthy(x) ==
    CASE x.t = "int" -> x.v # 0
      [] x.t = "bool" -> x.v
      [] x.t = "null" -> FALSE
      [] x.t = "str" -> Len(x.v) > 0
      [] x.t = "list" -> Len(x.v) > 0
      [] x.t = "map" -> DOMAIN x.v # {}

---------------------------------------------------------------------------
(* json.dumps(item, sort_keys=True): the canonical encoding *)

\* one character inside a JSON string literal (ensure_ascii escapes U+00B2)
EscapeChar(c) ==
    CASE c = "\"" -> <<"\\", "\"">>
      [] c = "\\" -> <<"\\", "\\">>
      [] c = Sup2 -> <<"\\", "u", "0", "0", "b", "2">>
      [] OTHER -> <<c>>

RECURSIVE EscapeStr(_)
EscapeStr(s) == IF Len(s) = 0 THEN <<>> ELSE EscapeChar(Head(s)) \o EscapeStr(Tail(s))

QuoteStr(s) == <<"\"">> \o EscapeStr(s) \o <<"\"">>

MinKey(S) == CHOOSE k \in S : \A j \in S \ {k} : StrLess(k, j)

\* sorted(keys)
RECURSIVE SortedKeys(_)
SortedKeys(S) == IF S = {} THEN <<>> ELSE <<MinKey(S)>> \o SortedKeys(S \ {MinKey(S)})

RECURSIVE JsonDumps(_), DumpItems(_), DumpEntries(_, _)
JsonDumps(x) ==
    CASE x.t = "int" -> IntToStr(x.v)
      [] x.t = "bool" -> IF x.v THEN <<"t", "r", "u", "e">> ELSE <<"f", "a", "l", "s", "e">>
      [] x.t = "null" -> <<"n", "u", "l", "l">>
      [] x.t = "str" -> QuoteStr(x.v)
      [] x.t = "list" -> <<"[">> \o DumpItems(x.v) \o <<"]">>
      [] x.t = "map" -> <<"{">> \o DumpEntries(x.v, SortedKeys(DOMAIN x.v)) \o <<"}">>

DumpItems(s) ==
    IF Len(s) = 0 THEN <<>>
    ELSE IF Len(s) = 1 THEN JsonDumps(s[1])
    ELSE JsonDumps(s[1]) \o <<",", " ">> \o DumpItems(Tail(s))

DumpEntries(d, keys) ==
    IF Len(keys) = 0 THEN <<>>
    ELSE LET one == QuoteStr(keys[1]) \o <<":", " ">> \o JsonDumps(d[keys[1]])
         IN IF Len(keys) = 1 THEN one ELSE one \o <<",", " ">> \o DumpEntries(d, Tail(keys))

---------------------------------------------------------------------------
(* json.loads(value), for documents without whitespace, fractions,         *)
(* exponents or backslash escapes                                          *)

PFail == [ok |-> FALSE, v |-> VNull, n |-> 0]
POk(x, n) == [ok |-> TRUE, v |-> x, n |-> n]

HasAt(s, i, lit) == i + Len(lit) - 1 <= Len(s) /\ SubSeq(s, i, i + Len(lit) - 1) = lit

\* index just past the run of decimal digits that starts at i
RECURSIVE DigitsEnd(_, _)
DigitsEnd(s, i) == IF i <= Len(s) /\ IsDecimalChar(s[i]) THEN DigitsEnd(s, i + 1) ELSE i

\* -?(0|[1-9][0-9]*)
ParseNumber(s, i) ==
    LET neg == s[i] = "-"
        j == IF neg THEN i + 1 ELSE i
        e == IF j <= Len(s) /\ s[j] = "0" THEN j + 1 ELSE DigitsEnd(s, j)
        mag == DecimalValue(SubSeq(s, j, e - 1))
    IN IF e = j THEN PFail ELSE POk(VInt(IF neg THEN 0 - mag ELSE mag), e)

\* index of the first quote at or after i, 0 when there is none
RECURSIVE QuoteEnd(_, _)
QuoteEnd(s, i) == IF i > Len(s) THEN 0 ELSE IF s[i] = "\"" THEN i ELSE QuoteEnd(s, i + 1)

\* s[i] is the opening quote
ParseString(s, i) ==
    LET q == QuoteEnd(s, i + 1)
    IN IF q = 0 THEN PFail ELSE POk(VStr(SubSeq(s, i + 1, q - 1)), q + 1)

RECURSIVE ParseValue(_, _), ParseElems(_, _, _), ParseMembers(_, _, _)
ParseValue(s, i) ==
    IF i > Len(s) THEN PFail
    ELSE IF HasAt(s, i, <<"n", "u", "l", "l">>) THEN POk(VNull, i + 4)
    ELSE IF HasAt(s, i, <<"t", "r", "u", "e">>) THEN POk(VBool(TRUE), i + 4)
    ELSE IF HasAt(s, i, <<"f", "a", "l", "s", "e">>) THEN POk(VBool(FALSE), i + 5)
    ELSE IF s[i] = "\"" THEN ParseString(s, i)
    ELSE IF s[i] = "[" THEN
        IF HasAt(s, i + 1, <<"]">>) THEN POk(VList(<<>>), i + 2) ELSE ParseElems(s, i + 1, <<>>)
    ELSE IF s[i] = "{" THEN
        IF HasAt(s, i + 1, <<"}">>) THEN POk(EmptyMap, i + 2) ELSE ParseMembers(s, i + 1, EmptyDict)
    ELSE IF s[i] = "-" \/ IsDecimalChar(s[i]) THEN ParseNumber(s, i)
    ELSE PFail

ParseElems(s, i, acc) ==
    LET r == ParseValue(s, i)
    IN IF ~r.ok \/ r.n > Len(s) THEN PFail
       ELSE IF s[r.n] = "," THEN ParseElems(s, r.n + 1, Append(acc, r.v))
       ELSE IF s[r.n] = "]" THEN POk(VList(Append(acc, r.v)), r.n + 1)
       ELSE PFail

ParseMembers(s, i, acc) ==
    IF i > Len(s) \/ s[i] # "\"" THEN PFail
    ELSE LET k == ParseString(s, i)
         IN IF ~k.ok \/ k.n > Len(s) \/ s[k.n] # ":" THEN PFail
            ELSE LET r == ParseValue(s, k.n + 1)
                 IN IF ~r.ok \/ r.n > Len(s) THEN PFail
                    ELSE IF s[r.n] = "," THEN ParseMembers(s, r.n + 1, Put(acc, k.v.v, r.v))
                    ELSE IF s[r.n] = "}" THEN POk(VMap(Put(acc, k.v.v, r.v)), r.n + 1)
                    ELSE PFail

\* the whole string must be one document
JsonLoads(s) ==
    LET r == ParseValue(s, 1)
    IN IF r.ok /\ r.n = Len(s) + 1 THEN r ELSE PFail

---------------------------------------------------------------------------
(* _deep_merge *)

\* a variant of the loop that never records what it appended (line 76 left out)
RECURSIVE AppendUnrecorded(_, _, _)
AppendUnrecorded(lst, existing, items) ==
    IF Len(items) = 0 THEN lst
    ELSE IF JsonDumps(Head(items)) \notin existing
         THEN AppendUnrecorded(Append(lst, Head(items)), existing, Tail(items))
         ELSE AppendUnrecorded(lst, existing, Tail(items))

\* lines 72-76: the loop over incoming's items, appending the unseen ones
RECURSIVE AppendUnique(_, _, _)
AppendUnique(lst, existing, items) ==
    IF Len(items) = 0 THEN lst
    ELSE LET encoded == JsonDumps(Head(items))
         IN IF encoded \notin existing
            THEN AppendUnique(Append(lst, Head(items)), existing \cup {encoded}, Tail(items))
            ELSE AppendUnique(lst, existing, Tail(items))

\* lines 71-76: base[k] and v are both lists
MergeLists(b, v) == AppendUnique(b, {JsonDumps(b[i]) : i \in DOMAIN b}, v)

\* base and incoming are dicts; the result is base after the call
RECURSIVE DeepMerge(_, _)

\* a variant in which a conflicting value already in base is kept (first layer wins)
DeepMergeFirstWins(base, incoming) ==
    [k \in DOMAIN base \cup DOMAIN incoming |->
        IF k \notin DOMAIN incoming THEN base[k]
        ELSE IF k \notin DOMAIN base THEN incoming[k]
        ELSE IF base[k].t = "map" /\ incoming[k].t = "map"
            THEN VMap(DeepMerge(base[k].v, incoming[k].v))
        ELSE IF base[k].t = "list" /\ incoming[k].t = "list"
            THEN VList(MergeLists(base[k].v, incoming[k].v))
        ELSE base[k]]

\* a variant that does not recurse: a mapping in incoming replaces the one in base
DeepMergeShallow(base, incoming) ==
    [k \in DOMAIN base \cup DOMAIN incoming |->
        IF k \notin DOMAIN incoming THEN base[k]
        ELSE IF k \notin DOMAIN base THEN incoming[k]
        ELSE IF base[k].t = "list" /\ incoming[k].t = "list"
            THEN VList(MergeLists(base[k].v, incoming[k].v))
        ELSE incoming[k]]

DeepMerge(base, incoming) ==
    [k \in DOMAIN base \cup DOMAIN incoming |->
        IF k \notin DOMAIN incoming THEN base[k]
        ELSE IF k \notin DOMAIN base THEN incoming[k]
        ELSE IF base[k].t = "map" /\ incoming[k].t = "map"
            THEN VMap(DeepMerge(base[k].v, incoming[k].v))
        ELSE IF base[k].t = "list" /\ incoming[k].t = "list"
            THEN VList(MergeLists(base[k].v, incoming[k].v))
        ELSE incoming[k]]

---------------------------------------------------------------------------
(* _env_overrides *)

\* prefix = "EVOSUITE_AGENT_OS_"
Prefix == <<"E", "V", "O", "S", "U", "I", "T", "E", "_",
            "A", "G", "E", "N", "T", "_", "O", "S", "_">>

StrTrue == <<"t", "r", "u", "e">>
StrFalse == <<"f", "a", "l", "s", "e">>

\* what an operation that may raise yields: the exception's name, or "none" and a value
Ok(x) == [exc |-> "none", val |-> x]
Raise(e) == [exc |-> e, val |-> NotLoaded]

\* int(value) for a string str.isdigit() accepted
IntOf(value) ==
    IF \A i \in DOMAIN value : IsDecimalChar(value[i])
    THEN Ok(VInt(DecimalValue(value)))
    ELSE Raise("ValueError")

\* lines 103-111: basic type coercion
Coerce(value) ==
    IF IsDigit(value) THEN IntOf(value)
    ELSE IF Lower(value) \in {StrTrue, StrFalse} THEN Ok(VBool(Lower(value) = StrTrue))
    ELSE IF JsonLoads(value).ok THEN Ok(JsonLoads(value).v)
    ELSE Ok(VStr(value))

\* lines 98-100: target after the setdefault walk over parts[:-1];
\* NotLoaded when setdefault is called on something that is not a dict
RECURSIVE WalkTarget(_, _)
WalkTarget(target, parts) ==
    IF Len(parts) = 0 THEN target
    ELSE IF target.t # "map" THEN NotLoaded
    ELSE WalkTarget(IF parts[1] \in DOMAIN target.v THEN target.v[parts[1]] ELSE EmptyMap,
                    Tail(parts))

\* the dict `target` after the walk over `parts` and target[leaf] = x at its end
\* (used once the walk and the assignment are known not to raise)
RECURSIVE AssignAt(_, _, _, _)
AssignAt(target, parts, leaf, x) ==
    IF Len(parts) = 0 THEN Put(target, leaf, x)
    ELSE LET child == IF parts[1] \in DOMAIN target THEN target[parts[1]].v ELSE EmptyDict
         IN Put(target, parts[1], VMap(AssignAt(child, Tail(parts), leaf, x)))

\* lines 94-112: one iteration of the loop over os.environ.items()
EnvEntry(ov, key, value) ==
    IF ~StartsWith(key, Prefix) THEN Ok(ov)
    ELSE LET parts == Split(Lower(DropPrefix(key, Len(Prefix))))
             inner == SubSeq(parts, 1, Len(parts) - 1)
             leaf == parts[Len(parts)]
             target == WalkTarget(VMap(ov), inner)
             coerced == Coerce(value)
         IN IF target = NotLoaded THEN Raise("AttributeError")
            ELSE IF coerced.exc # "none" THEN coerced
            ELSE IF target.t # "map" THEN Raise("TypeError")
            ELSE Ok(AssignAt(ov, inner, leaf, coerced.val))

\* lines 92-113: the whole loop, from entry i on
RECURSIVE EnvFrom(_, _, _)
EnvFrom(env, i, ov) ==
    IF i > Len(env) THEN Ok(VMap(ov))
    ELSE LET r == EnvEntry(ov, env[i][1], env[i][2])
         IN IF r.exc # "none" THEN r ELSE EnvFrom(env, i + 1, r.val)

EnvOverrides(env) == EnvFrom(env, 1, EmptyDict)

---------------------------------------------------------------------------
(* _load_file and _collect_layer_config *)

CONFIG_FILENAMES ==
    << <<"c", "o", "n", "f", "i", "g", ".", "y", "a", "m", "l">>,
       <<"c", "o", "n", "f", "i", "g", ".", "y", "m", "l">>,
       <<"c", "o", "n", "f", "i", "g", ".", "j", "s", "o", "n">> >>

\* A candidate file: absent, or present with text the parser of its format
\* rejects (or that cannot be read), or present with text denoting doc.
Absent == [e |-> "absent", doc |-> VNull]
Malformed == [e |-> "malformed", doc |-> VNull]
Doc(x) == [e |-> "doc", doc |-> x]

\* Path.suffix: the name from its last dot on
RECURSIVE LastDot(_, _)
LastDot(name, i) == IF i = 0 THEN 0 ELSE IF name[i] = "." THEN i ELSE LastDot(name, i - 1)

Suffix(name) ==
    IF LastDot(name, Len(name)) <= 1 THEN <<>>
    ELSE SubSeq(name, LastDot(name, Len(name)), Len(name))

ProvKey == <<"_", "p", "r", "o", "v", "e", "n", "a", "n", "c", "e">>
ErrKey == <<"_", "e", "r", "r", "o", "r">>

\* f"Failed loading {path.name}: {exc}", the parser's own text left out
ErrorMessage(name) ==
    <<"F", "a", "i", "l", "e", "d", " ", "l", "o", "a", "d", "i", "n", "g", " ">> \o name \o <<":">>

ErrorMarker(name) == VMap(Dict1(ErrKey, VStr(ErrorMessage(name))))

\* lines 50-60
LoadFile(file, name, yaml) ==
    IF file.e = "absent" THEN EmptyMap
    ELSE IF Suffix(name) \in {<<".", "y", "a", "m", "l">>, <<".", "y", "m", "l">>} /\ yaml
        THEN IF file.e = "malformed" THEN ErrorMarker(name)
             ELSE IF Truthy(file.doc) THEN file.doc ELSE EmptyMap
    ELSE IF Suffix(name) = <<".", "j", "s", "o", "n">>
        THEN IF file.e = "malformed" THEN ErrorMarker(name) ELSE file.doc
    ELSE EmptyMap

\* candidate.exists()
CandidateExists(dir, i) == dir.exists /\ dir.files[i].e # "absent"

\* a variant that moves on to the next candidate when a file yields nothing
RECURSIVE CollectSkipEmpty(_, _, _)
CollectSkipEmpty(dir, i, yaml) ==
    IF i > Len(CONFIG_FILENAMES) THEN EmptyMap
    ELSE IF /\ CandidateExists(dir, i)
            /\ Truthy(LoadFile(dir.files[i], CONFIG_FILENAMES[i], yaml))
         THEN LoadFile(dir.files[i], CONFIG_FILENAMES[i], yaml)
         ELSE CollectSkipEmpty(dir, i + 1, yaml)

\* lines 82-87, from candidate i on
RECURSIVE CollectFrom(_, _, _)
CollectFrom(dir, i, yaml) ==
    IF i > Len(CONFIG_FILENAMES) THEN EmptyMap
    ELSE IF CandidateExists(dir, i) THEN LoadFile(dir.files[i], CONFIG_FILENAMES[i], yaml)
    ELSE CollectFrom(dir, i + 1, yaml)

CollectLayerConfig(dir, yaml) == CollectFrom(dir, 1, yaml)

---------------------------------------------------------------------------
(* load_agent_os_config *)

Layers == <<"package", "user", "workspace", "env">>

PackageId == <<"p", "a", "c", "k", "a", "g", "e">>
EnvId == <<"e", "n", "v">>

\* str(user_dir) on Linux with home /h, and str(ws_dir) for workspace_root /w
UserDirStr == <<"/", "h", "/", ".", "c", "o", "n", "f", "i", "g", "/",
                "e", "v", "o", "s", "u", "i", "t", "e", "/", "a", "g", "e", "n", "t", "-", "o", "s">>
WsDirStr == <<"/", "w", "/", ".", "a", "g", "e", "n", "t", "-", "o", "s">>

LayerId(l) ==
    CASE l = "package" -> PackageId
      [] l = "user" -> UserDirStr
      [] l = "workspace" -> WsDirStr
      [] l = "env" -> EnvId

\* line 124
InitialMerged == Dict1(ProvKey, VList(<<>>))

\* `if c: _deep_merge(merged, c); merged["_provenance"].append(id)`
ApplyLayer(m, c, id) ==
    IF ~Truthy(c) THEN [exc |-> "none", val |-> m]
    ELSE IF c.t # "map" THEN [exc |-> "AttributeError", val |-> m]
    ELSE LET m1 == DeepMerge(m, c.v)
         IN IF m1[ProvKey].t # "list" THEN [exc |-> "AttributeError", val |-> m1]
            ELSE [exc |-> "none",
                  val |-> Put(m1, ProvKey, VList(Append(m1[ProvKey].v, VStr(id))))]

---------------------------------------------------------------------------
(* Inputs *)

\* the dict with the given <<key, value>> entries
MapOf(entries) == [k \in {e[1] : e \in entries} |-> (CHOOSE e \in entries : e[1] = k)[2]]

kK == <<"k">>
kA == <<"a">>
kB == <<"b">>
kC == <<"c">>
kT == <<"t">>

FileLayers == {"package", "user", "workspace"}

NoFiles == [i \in 1..3 |-> Absent]
NoDir == [exists |-> FALSE, files |-> NoFiles]
DirOf(yamlFile, ymlFile, jsonFile) ==
    [exists |-> TRUE, files |-> <<yamlFile, ymlFile, jsonFile>>]

DocA == VMap(MapOf({<<kK, VInt(1)>>, <<kA, VMap(Dict1(kB, VInt(1)))>>,
                    <<kT, VList(<<VInt(1)>>)>>}))
DocB == VMap(MapOf({<<kK, VInt(2)>>, <<kA, VMap(MapOf({<<kB, VInt(2)>>, <<kC, VInt(2)>>}))>>,
                    <<kT, VList(<<VInt(2), VInt(1)>>)>>}))
DocP == VMap(Dict1(ProvKey, VList(<<VStr(PackageId)>>)))
DocQ == VMap(Dict1(ProvKey, VInt(1)))
DocL == VList(<<VInt(1)>>)
DocS == VStr(<<"s">>)

\* what a configuration file of the full pipeline may hold
OrchFiles == {Malformed, Doc(EmptyMap), Doc(DocA), Doc(DocB), Doc(DocP), Doc(DocQ),
              Doc(DocL), Doc(DocS)}

\* the layer directories of the full pipeline
OrchDirs ==
    {NoDir} \cup {DirOf(Absent, Absent, f) : f \in OrchFiles}
        \cup {DirOf(Doc(DocB), Absent, Doc(DocA)), DirOf(Absent, Malformed, Doc(DocA)),
              DirOf(Doc(VList(<<>>)), Absent, Doc(DocA))}

Name(rest) == Prefix \o rest

\* the environment tables of the full pipeline
OrchEnvs ==
    { <<>>,
      << <<Name(<<"K">>), <<"4">>>> >>,
      << <<Name(<<"A", "_", "_", "B">>), <<"7">>>>, <<Name(<<"T">>), <<"[", "3", "]">>>> >>,
      << <<Name(<<"A">>), <<"1">>>>, <<Name(<<"A", "_", "_", "B">>), <<"2">>>> >>,
      << <<Name(<<"A", "_", "_", "B">>), <<"2">>>>, <<Name(<<"A">>), <<"1">>>> >>,
      << <<Name(<<"_", "P", "R", "O", "V", "E", "N", "A", "N", "C", "E">>),
           <<"[", "\"", "e", "\"", "]">>>> >>,
      << <<Name(<<"_", "P", "R", "O", "V", "E", "N", "A", "N", "C", "E">>), <<"5">>>> >>,
      << <<Name(<<"_", "E", "R", "R", "O", "R">>), <<"0">>>> >>,
      << <<Name(<<"X">>), <<Sup2>>>> >>,
      << <<<<"P", "A", "T", "H">>, <<"/", "b", "i", "n">>>> >> }

---------------------------------------------------------------------------
(* load_agent_os_config(workspace_root), one layer per step *)

UnusedEnvLoop == envIdx = 0 /\ overrides = EmptyDict
UnusedMerge == mbase = EmptyDict /\ mincoming = EmptyDict /\ mout = NotLoaded

Init ==
    /\ pc = "package"
    /\ exc = "none"
    /\ yamlAvail \in BOOLEAN
    /\ fs \in [FileLayers -> OrchDirs]
    /\ environ \in OrchEnvs
    /\ cfg = [l \in Range(Layers) |-> NotLoaded]
    /\ merged = InitialMerged
    /\ UnusedEnvLoop
    /\ UnusedMerge

\* the call moves on with the accumulator r.val, or ends with the exception r.exc
Proceed(r, next) ==
    /\ merged' = r.val
    /\ exc' = r.exc
    /\ pc' = IF r.exc = "none" THEN next ELSE "raised"

\* lines 126-145: a file layer is collected, merged and recorded
LoadFileLayer(l, next) ==
    /\ pc = l
    /\ cfg' = [cfg EXCEPT ![l] = CollectLayerConfig(fs[l], yamlAvail)]
    /\ Proceed(ApplyLayer(merged, CollectLayerConfig(fs[l], yamlAvail), LayerId(l)), next)
    /\ UNCHANGED <<yamlAvail, fs, environ, envIdx, overrides, mbase, mincoming, mout>>

LoadPackage == LoadFileLayer("package", "user")
LoadUser == LoadFileLayer("user", "workspace")
LoadWorkspace == LoadFileLayer("workspace", "env")

\* lines 148-151 for the outcome e of _env_overrides()
ApplyEnv(m, e) ==
    IF e.exc # "none" THEN [exc |-> e.exc, val |-> m] ELSE ApplyLayer(m, e.val, EnvId)

\* lines 147-153
LoadEnvironment ==
    /\ pc = "env"
    /\ cfg' = [cfg EXCEPT !["env"] = EnvOverrides(environ).val]
    /\ Proceed(ApplyEnv(merged, EnvOverrides(environ)), "done")
    /\ UNCHANGED <<yamlAvail, fs, environ, envIdx, overrides, mbase, mincoming, mout>>

Next == LoadPackage \/ LoadUser \/ LoadWorkspace \/ LoadEnvironment

Spec == Init /\ [][Next]_vars

---------------------------------------------------------------------------
(* _collect_layer_config(dir_path) on its own *)

\* what a candidate file of the directory may be
LayerFiles == {Absent, Malformed, Doc(EmptyMap), Doc(DocA), Doc(DocB), Doc(DocL), Doc(VNull)}

AllDirs == {NoDir} \cup {[exists |-> TRUE, files |-> f] : f \in [1..3 -> LayerFiles]}

InitLayer ==
    /\ pc = "collect"
    /\ exc = "none"
    /\ yamlAvail \in BOOLEAN
    /\ \E d \in AllDirs : fs = [l \in FileLayers |-> IF l = "workspace" THEN d ELSE NoDir]
    /\ environ = <<>>
    /\ cfg = [l \in Range(Layers) |-> NotLoaded]
    /\ merged = InitialMerged
    /\ UnusedEnvLoop
    /\ UnusedMerge

CollectLayer ==
    /\ pc = "collect"
    /\ cfg' = [cfg EXCEPT !["workspace"] = CollectLayerConfig(fs["workspace"], yamlAvail)]
    /\ pc' = "collected"
    /\ UNCHANGED <<exc, yamlAvail, fs, environ, merged, envIdx, overrides,
                   mbase, mincoming, mout>>

NextLayer == CollectLayer

SpecLayer == InitLayer /\ [][NextLayer]_vars

---------------------------------------------------------------------------
(* _deep_merge(base, incoming) on its own *)

MaxListLen == 2

PartialMaps(K, V) == UNION {[S -> V] : S \in SUBSET K}

SeqsUpTo(S, n) == UNION {[1..m -> S] : m \in 0..n}

\* list elements: an integer, the string of its digits, a boolean, two dicts
MergeItems == {VInt(1), VStr(<<"1">>), VBool(TRUE), VMap(Dict1(kA, VInt(1))),
               VMap(MapOf({<<kA, VInt(1)>>, <<kB, VInt(2)>>}))}

ListDicts == {Dict1(kT, VList(s)) : s \in SeqsUpTo(MergeItems, MaxListLen)}

Leaves == {VInt(1), VInt(2)}
Dicts1 == PartialMaps({kA, kB}, Leaves)
Dicts2 == PartialMaps({kA, kB}, Leaves \cup {VMap(d) : d \in Dicts1} \cup {VList(<<VInt(1)>>)})
Dicts3 == PartialMaps({kA}, {VMap(d) : d \in Dicts2})

MergePairs ==
    (ListDicts \X ListDicts) \cup (Dicts2 \X Dicts2) \cup (Dicts3 \X Dicts3)

InitMerge ==
    /\ pc = "merge"
    /\ exc = "none"
    /\ yamlAvail = FALSE
    /\ fs = [l \in FileLayers |-> NoDir]
    /\ environ = <<>>
    /\ cfg = [l \in Range(Layers) |-> NotLoaded]
    /\ merged = InitialMerged
    /\ UnusedEnvLoop
    /\ \E p \in MergePairs : mbase = p[1] /\ mincoming = p[2]
    /\ mout = NotLoaded

DeepMergeCall ==
    /\ pc = "merge"
    /\ mout' = VMap(DeepMerge(mbase, mincoming))
    /\ pc' = "merged"
    /\ UNCHANGED <<exc, yamlAvail, fs, environ, cfg, merged, envIdx, overrides,
                   mbase, mincoming>>

NextMerge == DeepMergeCall

SpecMerge == InitMerge /\ [][NextMerge]_vars

---------------------------------------------------------------------------
(* _env_overrides() on its own, one os.environ entry per step *)

MaxEnvVars == 2

EnvNames ==
    {Name(<<"A">>), Name(<<"A", "_", "_", "B">>), Name(<<"A", "_", "_", "_", "B">>),
     Name(<<"a", "_", "_", "B", "_", "_", "c">>),
     Name(<<"K">>), Name(<<>>), <<"P", "A", "T", "H">>,
     <<"E", "V", "O", "S", "U", "I", "T", "E", "_", "A", "G", "E", "N", "T", "_", "O", "S", "X">>}

EnvValues ==
    {<<"4">>, <<"0", "0", "7">>, <<"T", "r", "u", "e">>, <<"f", "a", "l", "s", "e">>,
     <<"[", "1", ",", "2", "]">>, <<"{", "\"", "x", "\"", ":", "1", "}">>,
     <<"a", "b", "c">>, <<Sup2>>, <<"-", "1">>, <<>>, <<"n", "u", "l", "l">>}

\* os.environ is a dict: no name occurs twice
EnvTables ==
    {e \in SeqsUpTo(EnvNames \X EnvValues, MaxEnvVars) :
        \A i, j \in DOMAIN e : i # j => e[i][1] # e[j][1]}

InitEnv ==
    /\ pc = "env_loop"
    /\ exc = "none"
    /\ yamlAvail = FALSE
    /\ fs = [l \in FileLayers |-> NoDir]
    /\ environ \in EnvTables
    /\ cfg = [l \in Range(Layers) |-> NotLoaded]
    /\ merged = InitialMerged
    /\ UnusedEnvLoop
    /\ UnusedMerge

\* lines 93-112: the loop body for the next entry
EnvIterate ==
    /\ pc = "env_loop"
    /\ envIdx < Len(environ)
    /\ LET r == EnvEntry(overrides, environ[envIdx + 1][1], environ[envIdx + 1][2])
       IN /\ exc' = r.exc
          /\ pc' = IF r.exc = "none" THEN "env_loop" ELSE "raised"
          /\ overrides' = IF r.exc = "none" THEN r.val ELSE overrides
    /\ envIdx' = envIdx + 1
    /\ UNCHANGED <<yamlAvail, fs, environ, cfg, merged, mbase, mincoming, mout>>

\* line 113
EnvReturn ==
    /\ pc = "env_loop"
    /\ envIdx = Len(environ)
    /\ pc' = "returned"
    /\ UNCHANGED <<exc, yamlAvail, fs, environ, cfg, merged, envIdx, overrides,
                   mbase, mincoming, mout>>

NextEnv == EnvIterate \/ EnvReturn

SpecEnv == InitEnv /\ [][NextEnv]_vars

---------------------------------------------------------------------------
(* Properties of load_agent_os_config (specification Spec) *)

Max(S) == CHOOSE i \in S : \A j \in S : j <= i

IsScalar(x) == x.t \in {"int", "bool", "null", "str"}

Loaded(l) == cfg[l] # NotLoaded

\* C1: for every filesystem content and every environment table,
\* load_agent_os_config returns a mapping; no exception leaves it.
C1_NeverRaises == pc # "raised" /\ exc = "none"

\* the precedence ranks (1 = package .. 4 = env) of the layers whose loaded
\* value is a mapping that sets top-level key k
Setters(k) == {i \in 1..4 : cfg[Layers[i]].t = "map" /\ k \in DOMAIN cfg[Layers[i]].v}

\* the same for key k2 inside the mapping under k1
NestedSetters(k1, k2) ==
    {i \in Setters(k1) : /\ cfg[Layers[i]].v[k1].t = "map"
                         /\ k2 \in DOMAIN cfg[Layers[i]].v[k1].v}

\* C2: in a returned result, a key set by several layers to scalar values holds
\* the value of the highest-precedence layer that set it (env > workspace >
\* user > package), at the top level and inside a mapping every layer agrees on.
C2_Precedence ==
    pc = "done" =>
        /\ \A k \in DOMAIN merged :
            (/\ Cardinality(Setters(k)) >= 2
             /\ \A i \in Setters(k) : IsScalar(cfg[Layers[i]].v[k]))
                => merged[k] = cfg[Layers[Max(Setters(k))]].v[k]
        /\ \A k1 \in DOMAIN merged :
            (/\ Setters(k1) # {}
             /\ \A i \in Setters(k1) : cfg[Layers[i]].v[k1].t = "map")
                => /\ merged[k1].t = "map"
                   /\ \A k2 \in DOMAIN merged[k1].v :
                        (/\ Cardinality(NestedSetters(k1, k2)) >= 2
                         /\ \A i \in NestedSetters(k1, k2) :
                                IsScalar(cfg[Layers[i]].v[k1].v[k2]))
                            => merged[k1].v[k2]
                                = cfg[Layers[Max(NestedSetters(k1, k2))]].v[k1].v[k2]

\* three layers set k to three different scalars, the lowest of them the package,
\* and a nested key is set by two layers to different scalars
C2_Witness ==
    /\ pc = "done"
    /\ Setters(kK) = {1, 3, 4}
    /\ cfg["package"].v[kK] = VInt(1)
    /\ cfg["workspace"].v[kK] = VInt(2)
    /\ cfg["env"].v[kK] = VInt(4)
    /\ merged[kK] = VInt(4)
    /\ NestedSetters(kA, kB) = {1, 3}
    /\ cfg["package"].v[kA].v[kB] # cfg["workspace"].v[kA].v[kB]

\* the identifiers, in application order, of the layers among the first n whose
\* loaded value is non-empty
RECURSIVE NonEmptyIds(_)
NonEmptyIds(n) ==
    IF n = 0 THEN <<>>
    ELSE IF Loaded(Layers[n]) /\ Truthy(cfg[Layers[n]])
         THEN Append(NonEmptyIds(n - 1), VStr(LayerId(Layers[n])))
         ELSE NonEmptyIds(n - 1)

\* C3: the provenance list of the result holds exactly the identifiers of the
\* layers whose loaded value was non-empty, in application order.
C3_ProvenanceExact == pc = "done" => merged[ProvKey] = VList(NonEmptyIds(4))

\* the layers applied so far: loaded, non-empty, and not the one whose merge raised
AppliedIds ==
    LET n == Cardinality({l \in Range(Layers) : Loaded(l)})
    IN IF pc = "raised" THEN NonEmptyIds(n - 1) ELSE NonEmptyIds(n)

\* C4: at every step the value under the reserved key is the list of identifiers
\* the orchestrator appended, never replaced or extended by layer data.
C4_ReservedKeyOwned ==
    /\ merged[ProvKey].t = "list"
    /\ \A i \in DOMAIN merged[ProvKey].v :
        merged[ProvKey].v[i] \in {VStr(LayerId(l)) : l \in Range(Layers)}
    /\ (exc = "none" => merged[ProvKey] = VList(AppliedIds))

\* the candidate _collect_layer_config selects in a directory (0: none)
Selected(dir) ==
    IF \E i \in 1..3 : CandidateExists(dir, i)
    THEN CHOOSE i \in 1..3 : CandidateExists(dir, i) /\ \A j \in 1..(i - 1) : ~CandidateExists(dir, j)
    ELSE 0

\* the parser is run on the selected file of layer l and rejects it
ParseFails(l) ==
    /\ Selected(fs[l]) # 0
    /\ fs[l].files[Selected(fs[l])].e = "malformed"
    /\ (Selected(fs[l]) = 3 \/ yamlAvail)

\* C5: when the selected file of a layer cannot be parsed, the loader returns the
\* one-entry error-marker mapping, load_agent_os_config still completes, and its
\* result contains that entry.
C5_ParseFailureContained ==
    \A l \in FileLayers :
        (Loaded(l) /\ ParseFails(l)) =>
            /\ cfg[l] = ErrorMarker(CONFIG_FILENAMES[Selected(fs[l])])
            /\ pc # "raised"
            /\ (pc = "done" => ErrKey \in DOMAIN merged /\ merged[ErrKey] = cfg[l].v[ErrKey])

---------------------------------------------------------------------------
(* Properties of _collect_layer_config (specification SpecLayer) *)

\* the indices of the candidates that exist in the directory
Existing(dir) == {i \in 1..3 : dir.exists /\ dir.files[i].e # "absent"}

Min(S) == CHOOSE i \in S : \A j \in S : i <= j

\* C6: the loader's result is what the first existing candidate, in the order
\* config.yaml, config.yml, config.json, yields, whatever the later candidates
\* are; it is the empty mapping when the directory or all candidates are absent.
C6_FirstMatchWins ==
    pc = "collected" =>
        LET dir == fs["workspace"]
            out == cfg["workspace"]
        IN /\ Existing(dir) = {} => out = EmptyMap
           /\ Existing(dir) # {} =>
                /\ out = LoadFile(dir.files[Min(Existing(dir))],
                                  CONFIG_FILENAMES[Min(Existing(dir))], yamlAvail)
                /\ \A d \in AllDirs :
                    (/\ Existing(d) # {}
                     /\ Min(Existing(d)) = Min(Existing(dir))
                     /\ d.files[Min(Existing(d))] = dir.files[Min(Existing(dir))])
                        => CollectLayerConfig(d, yamlAvail) = out

\* the first existing candidate is rejected by its parser, or holds an empty
\* mapping, while a later candidate holds data
C6_Witness ==
    /\ pc = "collected"
    /\ LET dir == fs["workspace"]
       IN /\ Existing(dir) = {2, 3}
          /\ dir.files[2] \in {Malformed, Doc(EmptyMap)}
          /\ dir.files[3] = Doc(DocA)
          /\ yamlAvail
          /\ cfg["workspace"] \in {ErrorMarker(CONFIG_FILENAMES[2]), EmptyMap}

---------------------------------------------------------------------------
(* Properties of _deep_merge (specification SpecMerge) *)

\* b, inc: the dicts passed in; out: base after the call
RECURSIVE FrameHolds(_, _, _)
FrameHolds(b, inc, out) ==
    /\ DOMAIN out = DOMAIN b \cup DOMAIN inc
    /\ \A k \in DOMAIN b \ DOMAIN inc : out[k] = b[k]
    /\ \A k \in DOMAIN inc \ DOMAIN b : out[k] = inc[k]
    /\ \A k \in DOMAIN b \cap DOMAIN inc :
        (b[k].t = "map" /\ inc[k].t = "map")
            => out[k].t = "map" /\ FrameHolds(b[k].v, inc[k].v, out[k].v)

\* C7: where base and incoming both hold mappings the merge recurses: at every
\* level so reached a key only in base keeps its value, a key only in incoming
\* is added with incoming's value, and no key of base is removed.
C7_MergeFrame == pc = "merged" => mout.t = "map" /\ FrameHolds(mbase, mincoming, mout.v)

\* two levels down, base and incoming hold mappings with a key each of their own
C7_Witness ==
    /\ pc = "merged"
    /\ kA \in DOMAIN mbase /\ kA \in DOMAIN mincoming
    /\ mbase[kA].t = "map" /\ mincoming[kA].t = "map"
    /\ kA \in DOMAIN mbase[kA].v /\ kA \in DOMAIN mincoming[kA].v
    /\ mbase[kA].v[kA].t = "map" /\ mincoming[kA].v[kA].t = "map"
    /\ DOMAIN mbase[kA].v[kA].v = {kA}
    /\ DOMAIN mincoming[kA].v[kA].v = {kB}
    /\ DOMAIN mout.v[kA].v[kA].v = {kA, kB}
    /\ kB \in DOMAIN mbase[kA].v /\ kB \notin DOMAIN mincoming[kA].v

\* the positions of inc whose element's canonical encoding is neither that of an
\* element of b nor that of an earlier element of inc
Fresh(b, inc) ==
    {j \in DOMAIN inc :
        /\ \A i \in DOMAIN b : JsonDumps(b[i]) # JsonDumps(inc[j])
        /\ \A i \in 1..(j - 1) : JsonDumps(inc[i]) # JsonDumps(inc[j])}

\* out is b followed by the elements of inc at the fresh positions, in inc's order
IsAppendUnique(b, inc, out) ==
    /\ Len(out) = Len(b) + Cardinality(Fresh(b, inc))
    /\ SubSeq(out, 1, Len(b)) = b
    /\ \E f \in [1..Cardinality(Fresh(b, inc)) -> Fresh(b, inc)] :
        /\ \A i, j \in DOMAIN f : i < j => f[i] < f[j]
        /\ \A i \in DOMAIN f : out[Len(b) + i] = inc[f[i]]

\* C8: where base and incoming both hold a sequence, the result is base's
\* sequence, unchanged, followed in incoming's order by the incoming elements
\* whose canonical encoding is new; merging the same incoming again changes nothing.
C8_ListUnion ==
    pc = "merged" =>
        /\ \A k \in DOMAIN mbase \cap DOMAIN mincoming :
            (mbase[k].t = "list" /\ mincoming[k].t = "list")
                => /\ mout.v[k].t = "list"
                   /\ IsAppendUnique(mbase[k].v, mincoming[k].v, mout.v[k].v)
        /\ DeepMerge(mout.v, mincoming) = mout.v

\* incoming repeats an element base lacks, and brings one base already has
C8_Witness ==
    /\ pc = "merged"
    /\ mbase = Dict1(kT, VList(<<VStr(<<"1">>), VInt(1)>>))
    /\ mincoming = Dict1(kT, VList(<<VBool(TRUE), VInt(1)>>))
    /\ mout.v = Dict1(kT, VList(<<VStr(<<"1">>), VInt(1), VBool(TRUE)>>))

---------------------------------------------------------------------------
(* Properties of _env_overrides (specification SpecEnv) *)

IsPrefixed(e) == StartsWith(e[1], Prefix)

\* the path a prefixed variable names
PathOf(e) == Split(Lower(DropPrefix(e[1], Len(Prefix))))

IsPathPrefix(p, q) == Len(p) <= Len(q) /\ SubSeq(q, 1, Len(p)) = p

\* no two prefixed variables name the same path or a path and its extension
NonOverlapping(env) ==
    \A i, j \in DOMAIN env :
        (i # j /\ IsPrefixed(env[i]) /\ IsPrefixed(env[j]))
            => ~IsPathPrefix(PathOf(env[i]), PathOf(env[j]))

\* the coercion as the specification words it: decimal digits, then a boolean
\* in any letter case, then JSON, then the string itself
SpecCoerce(value) ==
    IF Len(value) > 0 /\ \A i \in DOMAIN value : IsDecimalChar(value[i])
        THEN VInt(DecimalValue(value))
    ELSE IF Lower(value) \in {StrTrue, StrFalse} THEN VBool(Lower(value) = StrTrue)
    ELSE IF JsonLoads(value).ok THEN JsonLoads(value).v
    ELSE VStr(value)

\* the nested mapping holding value x at path p for each <<p, x>> of entries
RECURSIVE Nested(_)
Nested(entries) ==
    [k \in {e[1][1] : e \in entries} |->
        IF \E e \in entries : e[1] = <<k>>
        THEN (CHOOSE e \in entries : e[1] = <<k>>)[2]
        ELSE VMap(Nested({<<Tail(e[1]), e[2]>> : e \in {x \in entries : x[1][1] = k}}))]

ExpectedOverrides(env) ==
    Nested({<<PathOf(env[i]), SpecCoerce(env[i][2])>> :
                i \in {j \in DOMAIN env : IsPrefixed(env[j])}})

\* C9: for variables with non-overlapping paths the parser returns exactly the
\* nested mapping holding each prefixed variable's coerced value at its path.
C9_EnvExact ==
    NonOverlapping(environ) =>
        /\ pc # "raised"
        /\ (pc = "returned" => overrides = ExpectedOverrides(environ))

\* two prefixed variables, each parsed without error when it is the only one,
\* the path of one a proper extension of the other's
LeafAgainstMapping(env) ==
    /\ Len(env) = 2
    /\ IsPrefixed(env[1]) /\ IsPrefixed(env[2])
    /\ EnvOverrides(<<env[1]>>).exc = "none" /\ EnvOverrides(<<env[2]>>).exc = "none"
    /\ PathOf(env[1]) # PathOf(env[2])
    /\ \/ IsPathPrefix(PathOf(env[1]), PathOf(env[2]))
       \/ IsPathPrefix(PathOf(env[2]), PathOf(env[1]))

\* C10: when one variable wants a leaf where another wants a mapping, the parser
\* completes in either enumeration order and the variable processed last
\* decides what is stored there, the earlier one's contribution being discarded.
C10_LastProcessedWins ==
    LeafAgainstMapping(environ) =>
        /\ pc # "raised"
        /\ (pc = "returned" => overrides = ExpectedOverrides(<<environ[2]>>))

====
